---- MODULE Spec2Model ----
(***************************************************************************)
(* Model of the regular-content service of crm-backend-lite                *)
(* (regularContent.service.ts): createRegularContent,                      *)
(* getAllRegularContents, updateRegularContent, deleteRegularContent and   *)
(* the helper syncTagsToBusiness, over the Business and RegularContent     *)
(* collections.  Every await of the service is one atomic step of a        *)
(* request; the local computation up to the next await belongs to it.      *)
(*                                                                         *)
(* Strings whose text matters (tag strings, page and limit parameters) are *)
(* sequences of one-character strings.  An optional value whose type is a  *)
(* sequence is None (= <<>>) or Some(v) (= <<v>>); an optional scalar      *)
(* reference is the string Undefined.                                      *)
(***************************************************************************)
EXTENDS Integers, Sequences, FiniteSets, TLC

VARIABLES businesses, liveBiz, contents, nextId, req, syncLog, listing

vars == <<businesses, liveBiz, contents, nextId, req, syncLog, listing>>

-----------------------------------------------------------------------------
(* Bounds of the model *)

\* number of concurrently running requests
MaxReqs == 2
\* length of the exhaustively enumerated tag strings
MaxLen == 3
\* size of the exhaustively enumerated content collections of the listing
MaxDocs == 4

-----------------------------------------------------------------------------
(* Optional values *)

None == <<>>
Some(v) == <<v>>
IsSome(o) == o # <<>>
Get(o) == o[1]
Undefined == "undefined"

-----------------------------------------------------------------------------
(* Strings as sequences of characters *)

\* "#food" is written Str("#food") by listing its characters
Upper == <<"A","B","C","D","E","F","G","H","I","J","K","L","M",
           "N","O","P","Q","R","S","T","U","V","W","X","Y","Z">>
Lower == <<"a","b","c","d","e","f","g","h","i","j","k","l","m",
           "n","o","p","q","r","s","t","u","v","w","x","y","z">>

\* String.prototype.toLowerCase on one character
LowerChar(c) ==
  IF \E i \in 1..Len(Upper) : Upper[i] = c
  THEN Lower[CHOOSE i \in 1..Len(Upper) : Upper[i] = c]
  ELSE c

toLowerCase(s) == [i \in 1..Len(s) |-> LowerChar(s[i])]

\* the characters \s matches and trim() removes
IsSpace(c) == c \in {" ", "\t", "\n"}

RECURSIVE trimStart(_)
trimStart(s) ==
  IF s # <<>> /\ IsSpace(Head(s)) THEN trimStart(Tail(s)) ELSE s

RECURSIVE trimEnd(_)
trimEnd(s) ==
  IF s # <<>> /\ IsSpace(s[Len(s)]) THEN trimEnd(SubSeq(s, 1, Len(s) - 1)) ELSE s

trim(s) == trimEnd(trimStart(s))

\* s.split(/\s+/): the pieces between maximal runs of whitespace, the empty
\* pieces at either end included ("".split(/\s+/) is [""])
RECURSIVE splitFrom(_, _, _, _)
splitFrom(s, i, cur, acc) ==
  IF i > Len(s) THEN Append(acc, cur)
  ELSE IF IsSpace(s[i])
       THEN IF i > 1 /\ IsSpace(s[i - 1])
            THEN splitFrom(s, i + 1, cur, acc)
            ELSE splitFrom(s, i + 1, <<>>, Append(acc, cur))
       ELSE splitFrom(s, i + 1, Append(cur, s[i]), acc)

split(s) == splitFrom(s, 1, <<>>, <<>>)

\* parts.join(" ")
RECURSIVE join(_)
join(parts) ==
  IF parts = <<>> THEN <<>>
  ELSE IF Len(parts) = 1 THEN parts[1]
  ELSE parts[1] \o <<" ">> \o join(Tail(parts))

\* mutation: the length test is dropped, so a lone "#" counts as a hashtag
isHashtagAnyLength(tag) == Len(tag) > 0 /\ tag[1] = "#"

\* tag.startsWith("#") && tag.length > 1
isHashtag(tag) == Len(tag) > 1 /\ tag[1] = "#"

\* arr.includes(tag)
includes(arr, tag) == \E i \in 1..Len(arr) : arr[i] = tag

-----------------------------------------------------------------------------
(* Domains *)

Reqs == 1..MaxReqs

\* the acting users (req.user): two staff members, assigned to a business or
\* not, and two privileged users
Actors ==
  { [id |-> "u1", roles |-> {"CONTENT_WRITER"}],
    [id |-> "u4", roles |-> {"CONTENT_DESIGNER"}],
    [id |-> "u2", roles |-> {"ADMIN"}],
    [id |-> "u3", roles |-> {"SUPER_ADMIN"}] }

NoUser == [id |-> Undefined, roles |-> {}]

\* the businesses of the initial state ("b9" names one that never existed)
BizIds == {"b1", "b2"}

\* the dates of the model, MM/DD/YYYY, in ascending string order
Dates == <<"01/02/2026", "12/31/2025">>
\* getTodayDateString()
Today == "01/02/2026"

FoodLocal == <<"#","f","o","o","d"," ","#","l","o","c","a","l">>
FoodNew == <<"#","F","o","o","d"," ","#","N","E","W">>
FoodLocalNew ==
  <<"#","f","o","o","d"," ","#","l","o","c","a","l"," ","#","n","e","w">>
TagX == <<"#","x">>
Plain == <<"n","o"," ","t","a","g","s">>
\* tag strings with several hashtags, repeated and in either case
MultiTags ==
  { <<"#","a"," ","#","A">>, <<"#","A"," ","#","a"," ","#">>,
    <<"#","b"," ","#","a"," ","#","b">>, <<" ","#","A","\t"," ","#","b"," ">>,
    <<"#","B","a"," ","a"," ","#","a">> }

\* the assignment lists of business b1 in the initial state
BizConfigs ==
  { [assignedCD |-> None, assignedCW |-> None, assignedVE |-> None],
    [assignedCD |-> Some(<<>>), assignedCW |-> Some(<<"u1">>),
     assignedVE |-> Some(<<>>)],
    [assignedCD |-> Some(<<"u4", "u1">>), assignedCW |-> Some(<<"u4">>),
     assignedVE |-> None],
    [assignedCD |-> Some(<<"u4">>), assignedCW |-> Some(<<"u4">>),
     assignedVE |-> Some(<<"u1", "u4">>)],
    [assignedCD |-> Some(<<"u4">>), assignedCW |-> Some(<<>>),
     assignedVE |-> Some(<<"u4">>)] }

Biz(cfg, tags) ==
  [assignedCD |-> cfg.assignedCD, assignedCW |-> cfg.assignedCW,
   assignedVE |-> cfg.assignedVE, tags |-> tags]

Biz2 ==
  [assignedCD |-> Some(<<>>), assignedCW |-> Some(<<"u4">>),
   assignedVE |-> Some(<<>>), tags |-> Some(TagX)]

NoPayload ==
  [business |-> Undefined, tags |-> None, contentType |-> Undefined,
   date |-> Undefined, status |-> FALSE, addedBy |-> Undefined,
   assignedCD |-> Undefined, assignedCW |-> Undefined, assignedVE |-> Undefined]

IdleReq ==
  [pc |-> "idle", op |-> "none", user |-> NoUser, id |-> 0,
   payload |-> NoPayload, existingBusiness |-> Undefined, business |-> None,
   syncBusinessId |-> Undefined, contentTags |-> None, updatedTags |-> <<>>,
   result |-> "pending", created |-> 0]

IdleListing == [pc |-> "idle"]

-----------------------------------------------------------------------------
(* The data store *)

\* mutation: a removed business is still found
BusinessFindByIdRemovedToo(id) ==
  IF id \in BizIds THEN Some(businesses[id]) ELSE None

\* Business.findById(id)
BusinessFindById(id) ==
  IF id \in liveBiz THEN Some(businesses[id]) ELSE None

\* RegularContent.findById(id)
ContentFindById(id) ==
  IF id \in DOMAIN contents THEN Some(contents[id]) ELSE None

\* .populate("business", ...): the referenced document, or null when the
\* reference does not resolve
PopulateBusiness(content) ==
  IF content.business \in liveBiz THEN Some([_id |-> content.business]) ELSE None

-----------------------------------------------------------------------------
(* syncTagsToBusiness *)

\* !contentTags || !contentTags.trim()
NoTagsToSync(contentTags) ==
  \/ ~IsSome(contentTags)
  \/ Get(contentTags) = <<>>
  \/ trim(Get(contentTags)) = <<>>

\* the hashtags of a tag string: trim, split, filter, lower-case
Hashtags(tags) ==
  LET kept == SelectSeq(split(trim(tags)), isHashtag)
  IN  [i \in 1..Len(kept) |-> toLowerCase(kept[i])]

contentHashtags(contentTags) == Hashtags(contentTags)

\* business.tags || ""
businessTags(business) ==
  IF IsSome(business.tags) THEN Get(business.tags) ELSE <<>>

businessHashtags(business) == Hashtags(businessTags(business))

\* mutation: the business's hashtags are compared without lower-casing them
newHashtagsCaseSensitive(business, contentTags) ==
  LET have == SelectSeq(split(trim(businessTags(business))), isHashtag)
      NotThere(tag) == ~includes(have, tag)
  IN  SelectSeq(contentHashtags(contentTags), NotThere)

newHashtags(business, contentTags) ==
  LET have == businessHashtags(business)
      NotThere(tag) == ~includes(have, tag)
  IN  SelectSeq(contentHashtags(contentTags), NotThere)

\* mutation: the business's existing tag text is not carried over
updatedTagsOnlyNew(business, contentTags) ==
  join(newHashtags(business, contentTags))

updatedTags(business, contentTags) ==
  IF trim(businessTags(business)) # <<>>
  THEN trim(businessTags(business)) \o <<" ">> \o join(newHashtags(business, contentTags))
  ELSE join(newHashtags(business, contentTags))

Finish(r, res) == [req EXCEPT ![r].pc = "done", ![r].result = res]

\* entry of syncTagsToBusiness: return at once when there is nothing to sync
SyncEnter(r) ==
  /\ req[r].pc = "syncCall"
  /\ IF NoTagsToSync(req[r].contentTags)
     THEN req' = Finish(r, "ok")
     ELSE req' = [req EXCEPT ![r].pc = "syncLoad"]
  /\ UNCHANGED <<businesses, liveBiz, contents, nextId, syncLog, listing>>

\* await Business.findById(businessId) and the computation of the new tags
SyncLoad(r) ==
  /\ req[r].pc = "syncLoad"
  /\ LET found == BusinessFindById(req[r].syncBusinessId)
         tags == Get(req[r].contentTags)
     IN  IF ~IsSome(found)
         THEN /\ req' = Finish(r, "ok")
              /\ syncLog' = syncLog
         ELSE /\ syncLog' = Append(syncLog, <<r, "load">>)
              /\ IF Len(newHashtags(Get(found), tags)) > 0
                 THEN req' = [req EXCEPT ![r].pc = "syncWrite",
                                         ![r].business = found,
                                         ![r].updatedTags = updatedTags(Get(found), tags)]
                 ELSE req' = [Finish(r, "ok") EXCEPT ![r].business = found]
  /\ UNCHANGED <<businesses, liveBiz, contents, nextId, listing>>

\* await Business.findByIdAndUpdate(businessId, { tags: updatedTags })
SyncWrite(r) ==
  /\ req[r].pc = "syncWrite"
  /\ LET b == req[r].syncBusinessId
     IN  businesses' =
           IF b \in liveBiz
           THEN [businesses EXCEPT ![b].tags = Some(req[r].updatedTags)]
           ELSE businesses
  /\ syncLog' = Append(syncLog, <<r, "write">>)
  /\ req' = Finish(r, "ok")
  /\ UNCHANGED <<liveBiz, contents, nextId, listing>>

-----------------------------------------------------------------------------
(* createRegularContent *)

\* business.assignedCD ? business.assignedCD[0] : undefined
FirstAssignee(list) ==
  IF IsSome(list) /\ Len(Get(list)) > 0 THEN Get(list)[1] ELSE Undefined

\* mutation: the payload is spread last, so a value it supplies wins
newPayloadSpreadLast(payload, user, business) ==
  LET Or(given, derived) == IF given # Undefined THEN given ELSE derived
  IN  [payload EXCEPT !.addedBy = Or(@, user.id),
                      !.assignedCD = Or(@, FirstAssignee(business.assignedCD)),
                      !.assignedCW = Or(@, FirstAssignee(business.assignedCW)),
                      !.assignedVE = Or(@, FirstAssignee(business.assignedVE))]

\* { ...payload, addedBy: user.id, assignedCD: ..., assignedCW: ..., assignedVE: ... }
newPayload(payload, user, business) ==
  [payload EXCEPT !.addedBy = user.id,
                  !.assignedCD = FirstAssignee(business.assignedCD),
                  !.assignedCW = FirstAssignee(business.assignedCW),
                  !.assignedVE = FirstAssignee(business.assignedVE)]

\* the document RegularContent.create(doc) stores
NewContent(doc, stamp) ==
  [business |-> doc.business, tags |-> doc.tags, contentType |-> doc.contentType,
   date |-> doc.date, status |-> doc.status, addedBy |-> doc.addedBy, assignedCD |-> doc.assignedCD,
   assignedCW |-> doc.assignedCW, assignedVE |-> doc.assignedVE,
   createdAt |-> stamp]

\* what a caller of createRegularContent can send
CreatePayloads ==
  { [NoPayload EXCEPT !.business = b, !.contentType = "poster", !.date = Today,
                      !.addedBy = o, !.assignedCD = o, !.assignedCW = o,
                      !.assignedVE = o] :
      b \in {"b1", "b9", Undefined}, o \in {Undefined, "u9"} }

\* await Business.findById(payload.business), and the NotFound it may throw
CreateFindBusiness(r) ==
  /\ req[r].pc = "idle"
  /\ \E user \in Actors, payload \in CreatePayloads :
       LET found == BusinessFindById(payload.business)
           started == [req EXCEPT ![r].op = "create", ![r].user = user,
                                  ![r].payload = payload]
       IN  IF ~IsSome(found)
           THEN req' = [started EXCEPT ![r].pc = "done", ![r].result = "NotFound"]
           ELSE req' = [started EXCEPT ![r].pc = "create", ![r].business = found]
  /\ UNCHANGED <<businesses, liveBiz, contents, nextId, syncLog, listing>>

\* await RegularContent.create(newPayload)
CreateContent(r) ==
  /\ req[r].pc = "create"
  /\ LET doc == newPayload(req[r].payload, req[r].user, Get(req[r].business))
     IN  contents' = [i \in DOMAIN contents \cup {nextId} |->
                        IF i = nextId THEN NewContent(doc, nextId) ELSE contents[i]]
  /\ nextId' = nextId + 1
  /\ req' = [req EXCEPT ![r].pc = "populate", ![r].created = nextId]
  /\ UNCHANGED <<businesses, liveBiz, syncLog, listing>>

\* await RegularContent.findById(content._id).populate(...): the populated
\* record, or the unpopulated one when it can no longer be found
CreatePopulate(r) ==
  /\ req[r].pc = "populate"
  /\ req' = Finish(r, "ok")
  /\ UNCHANGED <<businesses, liveBiz, contents, nextId, syncLog, listing>>

-----------------------------------------------------------------------------
(* Authorization of update and delete *)

\* !user.roles.includes(SUPER_ADMIN) && !user.roles.includes(ADMIN)
NeedsAssignment(user) ==
  "SUPER_ADMIN" \notin user.roles /\ "ADMIN" \notin user.roles

\* business.assignedCW?.some((id) => id.toString() === user.id)
isAssigned(list, user) ==
  IsSome(list) /\ \E i \in 1..Len(Get(list)) : Get(list)[i] = user.id

isAssignedCW(business, user) == isAssigned(business.assignedCW, user)
isAssignedCD(business, user) == isAssigned(business.assignedCD, user)
\* mutation: the video editors are not consulted
isAssignedVENever(business, user) == FALSE

isAssignedVE(business, user) == isAssigned(business.assignedVE, user)

\* the lookup of the business and the membership test; the outcome is the
\* error thrown, or "pass"
Authorize(businessId, user) ==
  LET found == BusinessFindById(businessId)
  IN  IF ~IsSome(found) THEN "NotFound"
      ELSE IF /\ ~isAssignedCW(Get(found), user)
              /\ ~isAssignedCD(Get(found), user)
              /\ ~isAssignedVE(Get(found), user)
           THEN "Forbidden"
           ELSE "pass"

\* ids of content records a request can name
TargetIds == 1..MaxReqs

-----------------------------------------------------------------------------
(* updateRegularContent *)

\* what a caller of updateRegularContent can send
UpdatePayloads ==
  { [NoPayload EXCEPT !.business = b, !.tags = t] :
      b \in {Undefined, "b2"},
      t \in {None, Some(<<>>), Some(FoodNew), Some(TagX)} }

\* if (payload.tags): a non-empty string
Truthy(tags) == IsSome(tags) /\ Get(tags) # <<>>

\* the fields findByIdAndUpdate(id, payload) sets: those the payload holds
ApplyPayload(content, payload) ==
  [content EXCEPT
     !.business = IF payload.business # Undefined THEN payload.business ELSE @,
     !.tags = IF IsSome(payload.tags) THEN payload.tags ELSE @]

\* await RegularContent.findById(id), and the NotFound it may throw
UpdateFind(r) ==
  /\ req[r].pc = "idle"
  /\ \E user \in Actors, id \in TargetIds, payload \in UpdatePayloads :
       LET existingContent == ContentFindById(id)
           started == [req EXCEPT ![r].op = "update", ![r].user = user,
                                  ![r].id = id, ![r].payload = payload]
       IN  IF ~IsSome(existingContent)
           THEN req' = [started EXCEPT ![r].pc = "done", ![r].result = "NotFound"]
           ELSE req' = [started EXCEPT
                          ![r].existingBusiness = Get(existingContent).business,
                          ![r].pc = IF NeedsAssignment(user) THEN "auth" ELSE "write"]
  /\ UNCHANGED <<businesses, liveBiz, contents, nextId, syncLog, listing>>

\* await Business.findById(businessId) and the assignment check
UpdateAuthorize(r) ==
  /\ req[r].pc = "auth"
  /\ req[r].op = "update"
  /\ LET outcome == Authorize(req[r].existingBusiness, req[r].user)
     IN  req' = IF outcome = "pass"
                THEN [req EXCEPT ![r].pc = "write"]
                ELSE Finish(r, outcome)
  /\ UNCHANGED <<businesses, liveBiz, contents, nextId, syncLog, listing>>

\* the business the tags are synced to
SyncTarget(payload, existingBusiness) ==
  IF payload.business # Undefined THEN payload.business ELSE existingBusiness

\* mutation: the result of findByIdAndUpdate is not tested, so an update of
\* a vanished record goes on as if it had been written
UpdateWriteUnchecked(r) ==
  /\ req[r].pc = "write"
  /\ req[r].op = "update"
  /\ contents' = IF req[r].id \in DOMAIN contents
                 THEN [contents EXCEPT
                         ![req[r].id] = ApplyPayload(@, req[r].payload)]
                 ELSE contents
  /\ IF Truthy(req[r].payload.tags)
     THEN req' = [req EXCEPT
                    ![r].pc = "syncCall",
                    ![r].syncBusinessId =
                       SyncTarget(req[r].payload, req[r].existingBusiness),
                    ![r].contentTags = req[r].payload.tags]
     ELSE req' = Finish(r, "ok")
  /\ UNCHANGED <<businesses, liveBiz, nextId, syncLog, listing>>

\* await RegularContent.findByIdAndUpdate(id, payload, ...), the NotFound it
\* may throw, and the decision to sync the tags
UpdateWrite(r) ==
  /\ req[r].pc = "write"
  /\ req[r].op = "update"
  /\ IF req[r].id \notin DOMAIN contents
     THEN /\ req' = Finish(r, "NotFound")
          /\ contents' = contents
     ELSE /\ contents' = [contents EXCEPT
                            ![req[r].id] = ApplyPayload(@, req[r].payload)]
          /\ IF Truthy(req[r].payload.tags)
             THEN req' = [req EXCEPT
                            ![r].pc = "syncCall",
                            ![r].syncBusinessId =
                               SyncTarget(req[r].payload, req[r].existingBusiness),
                            ![r].contentTags = req[r].payload.tags]
             ELSE req' = Finish(r, "ok")
  /\ UNCHANGED <<businesses, liveBiz, nextId, syncLog, listing>>

-----------------------------------------------------------------------------
(* deleteRegularContent *)

\* the business id taken from the populated business field; reading _id of
\* the null a dangling reference populates to throws a TypeError
PopulatedBusinessId(populated) ==
  IF IsSome(populated) THEN Get(populated)._id ELSE "TypeError"

\* await RegularContent.findById(id).populate(...), the NotFound it may
\* throw, and the extraction of the business id
DeleteFind(r) ==
  /\ req[r].pc = "idle"
  /\ \E user \in Actors, id \in TargetIds :
       LET content == ContentFindById(id)
           started == [req EXCEPT ![r].op = "delete", ![r].user = user,
                                  ![r].id = id]
       IN  IF ~IsSome(content)
           THEN req' = [started EXCEPT ![r].pc = "done", ![r].result = "NotFound"]
           ELSE IF ~NeedsAssignment(user)
           THEN req' = [started EXCEPT ![r].pc = "write"]
           ELSE LET businessId == PopulatedBusinessId(PopulateBusiness(Get(content)))
                IN  IF businessId = "TypeError"
                    THEN req' = [started EXCEPT ![r].pc = "done",
                                                ![r].result = "TypeError"]
                    ELSE req' = [started EXCEPT ![r].pc = "auth",
                                                ![r].existingBusiness = businessId]
  /\ UNCHANGED <<businesses, liveBiz, contents, nextId, syncLog, listing>>

\* await Business.findById(businessId) and the assignment check
DeleteAuthorize(r) ==
  /\ req[r].pc = "auth"
  /\ req[r].op = "delete"
  /\ LET outcome == Authorize(req[r].existingBusiness, req[r].user)
     IN  req' = IF outcome = "pass"
                THEN [req EXCEPT ![r].pc = "write"]
                ELSE Finish(r, outcome)
  /\ UNCHANGED <<businesses, liveBiz, contents, nextId, syncLog, listing>>

\* await RegularContent.findByIdAndDelete(id), and the NotFound it may throw
DeleteContent(r) ==
  /\ req[r].pc = "write"
  /\ req[r].op = "delete"
  /\ IF req[r].id \notin DOMAIN contents
     THEN /\ req' = Finish(r, "NotFound")
          /\ contents' = contents
     ELSE /\ contents' = [i \in DOMAIN contents \ {req[r].id} |-> contents[i]]
          /\ req' = Finish(r, "ok")
  /\ UNCHANGED <<businesses, liveBiz, nextId, syncLog, listing>>

-----------------------------------------------------------------------------
(* The environment: a business is removed by the business module *)

RemoveBusiness(b) ==
  /\ b \in liveBiz
  /\ liveBiz' = liveBiz \ {b}
  /\ UNCHANGED <<businesses, contents, nextId, req, syncLog, listing>>

-----------------------------------------------------------------------------
(* The service under concurrent requests *)

\* the record created earlier against business b1
FirstContent(b1) ==
  NewContent(newPayload([NoPayload EXCEPT !.business = "b1",
                                          !.contentType = "poster", !.date = Today],
                        [id |-> "u2", roles |-> {"ADMIN"}], b1), 1)

Init ==
  /\ \E cfg \in BizConfigs :
       /\ businesses = [b \in BizIds |->
                          IF b = "b1" THEN Biz(cfg, Some(FoodLocal)) ELSE Biz2]
       /\ contents = [i \in {1} |-> FirstContent(Biz(cfg, Some(FoodLocal)))]
  /\ liveBiz = BizIds
  /\ nextId = 2
  /\ req = [r \in Reqs |-> IdleReq]
  /\ syncLog = <<>>
  /\ listing = IdleListing

Next ==
  \/ \E r \in Reqs :
       \/ CreateFindBusiness(r) \/ CreateContent(r) \/ CreatePopulate(r)
       \/ UpdateFind(r) \/ UpdateAuthorize(r) \/ UpdateWrite(r)
       \/ SyncEnter(r) \/ SyncLoad(r) \/ SyncWrite(r)
       \/ DeleteFind(r) \/ DeleteAuthorize(r) \/ DeleteContent(r)
  \/ \E b \in BizIds : RemoveBusiness(b)

Spec == Init /\ [][Next]_vars

-----------------------------------------------------------------------------
(* getAllRegularContents *)

Digits == <<"0","1","2","3","4","5","6","7","8","9">>
IsDigit(c) == \E i \in 1..10 : Digits[i] = c
DigitValue(c) == (CHOOSE i \in 1..10 : Digits[i] = c) - 1

\* parseInt(s) of a string that starts with a digit: the value of its
\* leading digits
RECURSIVE parseDigits(_, _)
parseDigits(s, acc) ==
  IF s = <<>> \/ ~IsDigit(Head(s)) THEN acc
  ELSE parseDigits(Tail(s), 10 * acc + DigitValue(Head(s)))

parseInt(s) == parseDigits(s, 0)

\* queryParams.page || "1": the default replaces an absent or empty string
OrDefault(param, default) ==
  IF IsSome(param) /\ Get(param) # <<>> THEN Get(param) ELSE default

\* no constraint on any field
NoFilter ==
  [date |-> None, business |-> None, assignedCD |-> None, assignedCW |-> None,
   assignedVE |-> None, addedBy |-> None, status |-> None, contentType |-> None]

FilterFields == DOMAIN NoFilter

Eq(param, filterValue) == IF param # Undefined THEN Some({filterValue}) ELSE None

\* the filter built from the query parameters (a field's constraint is the
\* set of values it admits)
QueryFilter(queryParams) ==
  [date |-> IF queryParams.todayOnly = "true" THEN Some({Today})
            ELSE Eq(queryParams.date, queryParams.date),
   business |-> Eq(queryParams.business, queryParams.business),
   assignedCD |-> Eq(queryParams.assignedCD, queryParams.assignedCD),
   assignedCW |-> Eq(queryParams.assignedCW, queryParams.assignedCW),
   assignedVE |-> Eq(queryParams.assignedVE, queryParams.assignedVE),
   addedBy |-> Eq(queryParams.addedBy, queryParams.addedBy),
   status |-> Eq(queryParams.status, queryParams.status = "true"),
   contentType |-> Eq(queryParams.contentType, queryParams.contentType)]

\* mutation: the overlay forces the assignee and leaves the caller's
\* contentType in place
RoleFilterKeepsType(filter, user) ==
  IF /\ "SUPER_ADMIN" \notin user.roles
     /\ "ADMIN" \notin user.roles
     /\ "CONTENT_WRITER" \notin user.roles
  THEN IF "CONTENT_DESIGNER" \in user.roles
       THEN [filter EXCEPT !.assignedCD = Some({user.id})]
       ELSE IF "VIDEO_EDITOR" \in user.roles
       THEN [filter EXCEPT !.assignedVE = Some({user.id})]
       ELSE filter
  ELSE filter

\* the role-based overlay on the filter
RoleFilter(filter, user) ==
  IF /\ "SUPER_ADMIN" \notin user.roles
     /\ "ADMIN" \notin user.roles
     /\ "CONTENT_WRITER" \notin user.roles
  THEN IF "CONTENT_DESIGNER" \in user.roles
       THEN [filter EXCEPT !.assignedCD = Some({user.id}),
                           !.contentType = Some({"poster", "both"})]
       ELSE IF "VIDEO_EDITOR" \in user.roles
       THEN [filter EXCEPT !.assignedVE = Some({user.id}),
                           !.contentType = Some({"video", "both"})]
       ELSE filter
  ELSE filter

\* (page - 1) * limit
skip(page, limit) == (page - 1) * limit

\* RegularContent.find(filter) / countDocuments(filter): the matching ids
Matching(filter) ==
  { i \in DOMAIN contents :
      \A f \in FilterFields :
        IsSome(filter[f]) => contents[i][f] \in Get(filter[f]) }

SortBy(queryParams) ==
  IF queryParams.sortBy # Undefined THEN queryParams.sortBy ELSE "date"
SortOrder(queryParams) == IF queryParams.sortOrder = "asc" THEN 1 ELSE -1

DateRank(d) == CHOOSE i \in 1..Len(Dates) : Dates[i] = d
SortKey(i, field) ==
  IF field = "createdAt" THEN contents[i].createdAt ELSE DateRank(contents[i].date)

\* whether document a comes before document b under sortOptions
\* ({ [sortBy]: sortOrder, createdAt: -1 })
Before(a, b, field, order) ==
  IF SortKey(a, field) # SortKey(b, field)
  THEN order * SortKey(a, field) < order * SortKey(b, field)
  ELSE contents[a].createdAt > contents[b].createdAt

RECURSIVE insert(_, _, _, _)
insert(sorted, a, field, order) ==
  IF sorted = <<>> THEN <<a>>
  ELSE IF Before(a, Head(sorted), field, order) THEN <<a>> \o sorted
  ELSE <<Head(sorted)>> \o insert(Tail(sorted), a, field, order)

\* .sort(sortOptions) of a set of documents
RECURSIVE sort(_, _, _)
sort(ids, field, order) ==
  IF ids = {} THEN <<>>
  ELSE LET a == CHOOSE x \in ids : TRUE
       IN  insert(sort(ids \ {a}, field, order), a, field, order)

\* .skip(n) of the data store, which accepts no negative n
SkipDocs(docs, n) == SubSeq(docs, n + 1, Len(docs))

\* .limit(n) of the data store: n = 0 sets no limit, a negative n limits to -n
LimitDocs(docs, n) ==
  LET m == IF n < 0 THEN -n ELSE n
  IN  IF m = 0 \/ m >= Len(docs) THEN docs ELSE SubSeq(docs, 1, m)

\* Math.ceil(total / limit); a division by 0 is Infinity, and 0 / 0 is NaN
totalPages(total, limit) ==
  IF limit = 0 THEN IF total = 0 THEN <<"NaN", 0>> ELSE <<"Infinity", 0>>
  ELSE IF limit > 0 THEN <<"number", (total + limit - 1) \div limit>>
  ELSE <<"number", -(total \div (-limit))>>

\* the users that list content
ListUsers ==
  { [id |-> "u1", roles |-> rs] :
      rs \in { {"CONTENT_DESIGNER"}, {"VIDEO_EDITOR"},
               {"CONTENT_DESIGNER", "VIDEO_EDITOR"},
               {"CONTENT_WRITER", "CONTENT_DESIGNER"},
               {"ADMIN", "VIDEO_EDITOR"}, {"SUPER_ADMIN"}, {} } }

NoQuery ==
  [date |-> Undefined, todayOnly |-> Undefined, business |-> Undefined,
   assignedCD |-> Undefined, assignedCW |-> Undefined, assignedVE |-> Undefined,
   addedBy |-> Undefined, status |-> Undefined, contentType |-> Undefined,
   page |-> None, limit |-> None, sortBy |-> Undefined, sortOrder |-> Undefined]

PageParams == {None, Some(<<"0">>), Some(<<"2">>), Some(<<"3">>)}
LimitParams == {None, Some(<<"0">>), Some(<<"2">>), Some(<<"2", "0">>)}

\* the query strings a caller sends
QueryParams ==
  { [NoQuery EXCEPT !.contentType = ct, !.assignedCD = cd, !.assignedVE = ve,
                    !.todayOnly = td, !.page = pg, !.limit = lm, !.sortOrder = so,
                    !.sortBy = sb] :
      ct \in {Undefined, "video", "poster"}, cd \in {Undefined, "u4"},
      ve \in {Undefined, "u4"}, td \in {Undefined, "true"},
      pg \in PageParams, lm \in LimitParams, so \in {Undefined, "asc"},
      sb \in {Undefined, "createdAt"} }

\* the whole call: the filter, the pagination, the two queries (no request
\* writes between them here) and the response
getAllRegularContents(queryParams, user) ==
  LET filter == RoleFilter(QueryFilter(queryParams), user)
      page == parseInt(OrDefault(queryParams.page, <<"1">>))
      limit == parseInt(OrDefault(queryParams.limit, <<"2", "0">>))
      matches == Matching(filter)
      sorted == sort(matches, SortBy(queryParams), SortOrder(queryParams))
  IN  IF skip(page, limit) < 0
      THEN [pc |-> "done", user |-> user, queryParams |-> queryParams,
            filter |-> filter, error |-> "MongoServerError", contents |-> <<>>,
            total |-> 0, page |-> page, limit |-> limit,
            totalPages |-> <<"number", 0>>]
      ELSE [pc |-> "done", user |-> user, queryParams |-> queryParams,
            filter |-> filter, error |-> "none",
            contents |-> LimitDocs(SkipDocs(sorted, skip(page, limit)), limit),
            total |-> Cardinality(matches), page |-> page, limit |-> limit,
            totalPages |-> totalPages(Cardinality(matches), limit)]

GetAll ==
  /\ listing.pc = "idle"
  /\ \E queryParams \in QueryParams, user \in ListUsers :
       listing' = getAllRegularContents(queryParams, user)
  /\ UNCHANGED <<businesses, liveBiz, contents, nextId, req, syncLog>>

ContentTypes == <<"poster", "video", "both">>
Staff == <<"u1", "u4", Undefined>>

\* document i of the listed collection: the content types, designers, video
\* editors and dates in every combination
ListedContent(i) ==
  [business |-> "b1", tags |-> None,
   contentType |-> ContentTypes[((i - 1) % 3) + 1],
   date |-> Dates[((i - 1) % 2) + 1], status |-> (i % 2 = 0),
   addedBy |-> "u2",
   assignedCD |-> Staff[(((i - 1) \div 3) % 3) + 1],
   assignedCW |-> Undefined,
   assignedVE |-> Staff[(((i - 1) \div 9) % 3) + 1],
   createdAt |-> i]

\* sizes of the listed collection: the small ones, and the 45 of the example
ListedSizes == (0..MaxDocs) \cup {45}

InitList ==
  /\ businesses = [b \in BizIds |->
                     IF b = "b1" THEN Biz(CHOOSE c \in BizConfigs : TRUE, None)
                     ELSE Biz2]
  /\ liveBiz = BizIds
  /\ \E n \in ListedSizes : /\ contents = [i \in 1..n |-> ListedContent(i)]
                           /\ nextId = n + 1
  /\ req = [r \in Reqs |-> IdleReq]
  /\ syncLog = <<>>
  /\ listing = IdleListing

NextList == GetAll

SpecList == InitList /\ [][NextList]_vars

-----------------------------------------------------------------------------
(* Tag synchronisation alone: every business tag string against every      *)
(* content tag string                                                      *)

Alphabet == {"#", " ", "a", "A"}

RECURSIVE StringsUpTo(_)
StringsUpTo(n) ==
  IF n = 0 THEN {<<>>}
  ELSE LET S == StringsUpTo(n - 1)
       IN  S \cup {Append(s, c) : s \in S, c \in Alphabet}

TagStrings == StringsUpTo(MaxLen) \cup {FoodLocal, FoodNew, TagX, Plain} \cup MultiTags
TagOptions == {None} \cup {Some(s) : s \in TagStrings}

InitSync ==
  /\ \E B \in TagOptions :
       businesses = [b \in BizIds |->
                       IF b = "b1" THEN Biz(CHOOSE c \in BizConfigs : TRUE, B)
                       ELSE Biz2]
  /\ liveBiz \in {BizIds, BizIds \ {"b1"}}
  /\ contents = <<>>
  /\ nextId = 1
  /\ \E C \in TagOptions :
       req = [r \in Reqs |->
                IF r = 1
                THEN [IdleReq EXCEPT !.pc = "syncCall", !.op = "sync",
                                     !.syncBusinessId = "b1", !.contentTags = C]
                ELSE IdleReq]
  /\ syncLog = <<>>
  /\ listing = IdleListing

NextSync == \E r \in Reqs : SyncEnter(r) \/ SyncLoad(r) \/ SyncWrite(r)

SpecSync == InitSync /\ [][NextSync]_vars

-----------------------------------------------------------------------------
(* The tag strings as the claims describe them, stated without the code's  *)
(* trim/split/filter pipeline                                              *)

\* where a whitespace-separated token of s starts
TokenStarts(s) ==
  {i \in 1..Len(s) : ~IsSpace(s[i]) /\ (i = 1 \/ IsSpace(s[i - 1]))}

\* the token of s that starts at i
TokenAt(s, i) ==
  SubSeq(s, i, CHOOSE j \in i..Len(s) :
                 /\ \A k \in i..j : ~IsSpace(s[k])
                 /\ (j = Len(s) \/ IsSpace(s[j + 1])))

\* a token starting with '#' and longer than one character
IsTag(t) == Len(t) >= 2 /\ Head(t) = "#"

\* whether hashtag t is among the hashtags of B, letter case ignored
PresentIn(t, B) ==
  \E i \in TokenStarts(B) :
    IsTag(TokenAt(B, i)) /\ toLowerCase(TokenAt(B, i)) = toLowerCase(t)

\* the lower-cased hashtags of C that B lacks, as one string, from position
\* i on, in the order they occur in C
RECURSIVE NewTagText(_, _, _)
NewTagText(B, C, i) ==
  IF i > Len(C) THEN <<>>
  ELSE IF i \in TokenStarts(C) /\ IsTag(TokenAt(C, i)) /\ ~PresentIn(TokenAt(C, i), B)
       THEN LET rest == NewTagText(B, C, i + 1)
            IN  toLowerCase(TokenAt(C, i)) \o
                  (IF rest = <<>> THEN <<>> ELSE <<" ">> \o rest)
       ELSE NewTagText(B, C, i + 1)

HasNewTag(B, C) == NewTagText(B, C, 1) # <<>>

\* s without its leading and trailing whitespace
Stripped(s) ==
  IF \A i \in 1..Len(s) : IsSpace(s[i]) THEN <<>>
  ELSE LET inked == {i \in 1..Len(s) : ~IsSpace(s[i])}
           lo == CHOOSE i \in inked : \A j \in inked : i <= j
           hi == CHOOSE i \in inked : \A j \in inked : j <= i
       IN  SubSeq(s, lo, hi)

\* text followed, space-separated, by more
Followed(text, more) == IF text = <<>> THEN more ELSE text \o <<" ">> \o more

\* the text of an optional tag string
TextOf(tags) == IF IsSome(tags) THEN Get(tags) ELSE <<>>

WriteLogged(r) == \E i \in 1..Len(syncLog) : syncLog[i] = <<r, "write">>
LoadLogged(r) == \E i \in 1..Len(syncLog) : syncLog[i] = <<r, "load">>

\* the sync of request r ran to its write, alone on a business that still
\* exists
SyncedAlone(r) ==
  /\ req[r].pc = "done"
  /\ WriteLogged(r)
  /\ req[r].syncBusinessId \in liveBiz
  /\ \A i \in 1..Len(syncLog) : syncLog[i][1] = r

C3_WritesIffNew ==
  [][ /\ \A r \in Reqs :
           /\ (req[r].pc = "syncCall" /\ req'[r] # req[r]) =>
                /\ businesses' = businesses /\ syncLog' = syncLog
                /\ (\/ ~IsSome(req[r].contentTags)
                    \/ Stripped(Get(req[r].contentTags)) = <<>>)
                     => req'[r].pc = "done"
           /\ (req[r].pc = "syncLoad" /\ req'[r] # req[r]) =>
                /\ businesses' = businesses
                /\ ~WriteLogged(r)'
                /\ req'[r].pc \in {"syncWrite", "done"}
                /\ (req'[r].pc = "syncWrite") <=>
                     (/\ req[r].syncBusinessId \in liveBiz
                      /\ HasNewTag(TextOf(businesses[req[r].syncBusinessId].tags),
                                   Get(req[r].contentTags)))
      /\ (\/ businesses' # businesses
          \/ (Len(syncLog') > Len(syncLog) /\ syncLog'[Len(syncLog')][2] = "write"))
           => \E r \in Reqs : req[r].pc = "syncWrite" /\ req'[r].pc = "done"
    ]_vars

\* a sync of content tags without any hashtag looked the business up, wrote
\* nothing and left the tags as they were
C3_Witness ==
  \E r \in Reqs :
    /\ req[r].pc = "done" /\ req[r].contentTags = Some(Plain)
    /\ LoadLogged(r) /\ ~WriteLogged(r)
    /\ businesses[req[r].syncBusinessId].tags = Get(req[r].business).tags

-----------------------------------------------------------------------------
(* Authorization, creation and deletion under concurrent requests *)

\* user id u appears in an assignment list
Listed(u, list) == IsSome(list) /\ u \in {Get(list)[i] : i \in 1..Len(Get(list))}

ListedAnywhere(u, business) ==
  \/ Listed(u, business.assignedCW)
  \/ Listed(u, business.assignedCD)
  \/ Listed(u, business.assignedVE)

Privileged(user) == "SUPER_ADMIN" \in user.roles \/ "ADMIN" \in user.roles

\* a request that has ended takes no further step
DoneIsFinal == \A r \in Reqs : req[r].pc = "done" => req'[r] = req[r]

\* C1: when an update or delete by a user without SUPER_ADMIN and ADMIN
\* reaches its assignment check for a content record that exists and whose
\* business (as the operation loaded the record) exists, it fails with
\* Forbidden exactly when the user's id is in none of the business's
\* assignedCW, assignedCD and assignedVE; a Forbidden ends the operation with
\* contents and businesses unchanged, a listed user goes on to the write;
\* and Forbidden arises nowhere else.
C1_ForbiddenIffUnlisted ==
  [][ /\ \A r \in Reqs :
           /\ ( /\ req[r].pc = "auth" /\ req'[r] # req[r]
                /\ req[r].id \in DOMAIN contents
                /\ req[r].existingBusiness \in liveBiz ) =>
                LET listed == ListedAnywhere(req[r].user.id,
                                             businesses[req[r].existingBusiness])
                IN  /\ (req'[r].result = "Forbidden") <=> ~listed
                    /\ ~listed => /\ req'[r].pc = "done"
                                  /\ contents' = contents
                                  /\ businesses' = businesses
                                  /\ liveBiz' = liveBiz
                    /\ listed => req'[r].pc = "write" /\ req'[r].result = "pending"
           /\ (req'[r].result = "Forbidden" /\ req[r].result # "Forbidden") =>
                /\ req[r].pc = "auth" /\ req[r].op \in {"update", "delete"}
                /\ ~Privileged(req[r].user)
      /\ DoneIsFinal
    ]_vars

\* one user was refused a delete with the record and the business intact,
\* while a user listed in assignedCW passed the check of an update
C1_Witness ==
  \E r, q \in Reqs :
    /\ req[r].op = "delete" /\ req[r].result = "Forbidden"
    /\ req[r].id \in DOMAIN contents
    /\ contents[req[r].id].business \in liveBiz
    /\ ~ListedAnywhere(req[r].user.id, businesses[contents[req[r].id].business])
    /\ req[q].op = "update" /\ req[q].pc = "write" /\ ~Privileged(req[q].user)
    /\ Listed(req[q].user.id, businesses[req[q].existingBusiness].assignedCW)

\* C4: a createRegularContent whose payload names no existing business ends
\* at its lookup with NotFound, the content records unchanged, and never
\* runs again.
C4_CreateNotFound ==
  [][ /\ \A r \in Reqs :
           ( /\ req[r].pc = "idle" /\ req'[r].op = "create"
             /\ req'[r].payload.business \notin liveBiz ) =>
             /\ req'[r].result = "NotFound" /\ req'[r].pc = "done"
             /\ req'[r].created = 0
             /\ contents' = contents /\ nextId' = nextId
      /\ DoneIsFinal
    ]_vars

\* a create against a business that was first removed ended in NotFound,
\* and no record was added
C4_Witness ==
  \E r \in Reqs :
    /\ req[r].op = "create" /\ req[r].result = "NotFound"
    /\ req[r].payload.business = "b1" /\ "b1" \notin liveBiz
    /\ req[r].created = 0 /\ DOMAIN contents = {1}

\* the first element of an assignment list, if it has one
FirstOf(list) ==
  IF IsSome(list) /\ Get(list) # <<>> THEN Head(Get(list)) ELSE Undefined

\* C5: the moment createRegularContent persists a record, the record's
\* assignedCD, assignedCW and assignedVE are the first elements of the
\* business's lists (undefined for an absent or empty list) and its addedBy
\* is the acting user's id, whatever the payload supplied for the four.
C5_DefaultsFromBusiness ==
  [][ \A r \in Reqs :
        (req[r].pc = "create" /\ req'[r] # req[r]) =>
          LET b == businesses[req[r].payload.business]
              id == req'[r].created
          IN  /\ id \in DOMAIN contents' /\ id \notin DOMAIN contents
              /\ req'[r].result \in {"pending", "ok"}
              /\ contents'[id].business = req[r].payload.business
              /\ contents'[id].assignedCD = FirstOf(b.assignedCD)
              /\ contents'[id].assignedCW = FirstOf(b.assignedCW)
              /\ contents'[id].assignedVE = FirstOf(b.assignedVE)
              /\ contents'[id].addedBy = req[r].user.id
    ]_vars

\* a record was created for a business whose designers are [u4, u1] and
\* whose video editors are absent, by a payload that named u9 throughout:
\* it has designer u4, no video editor, and the acting user as addedBy
C5_Witness ==
  \E r \in Reqs :
    /\ req[r].op = "create" /\ req[r].created \in DOMAIN contents
    /\ req[r].payload.assignedCD = "u9" /\ req[r].payload.addedBy = "u9"
    /\ businesses[req[r].payload.business].assignedCD = Some(<<"u4", "u1">>)
    /\ businesses[req[r].payload.business].assignedVE = None
    /\ contents[req[r].created].assignedCD = "u4"
    /\ contents[req[r].created].assignedVE = Undefined
    /\ contents[req[r].created].addedBy = req[r].user.id

\* C6 as stated: a deleteRegularContent by a user without SUPER_ADMIN and
\* ADMIN, for a record that exists and whose business has been removed,
\* fails with NotFound and with no other error, the record still there.
C6_RemovedBusinessNotFound ==
  [][ \A r \in Reqs :
        /\ ( /\ req[r].pc = "idle" /\ req'[r].op = "delete"
             /\ ~Privileged(req'[r].user)
             /\ req'[r].id \in DOMAIN contents
             /\ contents[req'[r].id].business \notin liveBiz ) =>
             /\ req'[r].result \in {"pending", "NotFound"}
             /\ contents' = contents
        /\ ( /\ req[r].pc = "auth" /\ req[r].op = "delete" /\ req'[r] # req[r]
             /\ req[r].existingBusiness \notin liveBiz ) =>
             /\ req'[r].result = "NotFound"
             /\ contents' = contents
    ]_vars

\* C9: when the write of an update or delete finds its record gone (deleted
\* by another request since the load), the operation ends with NotFound and
\* changes no record, no business and no sync log; the id is never
\* repopulated; and a request that has ended takes no further step, so no
\* tag sync follows.
C9_VanishedIsNotFound ==
  [][ /\ \A r \in Reqs :
           ( /\ req[r].pc = "write" /\ req'[r] # req[r]
             /\ req[r].id \notin DOMAIN contents ) =>
             /\ req'[r].result = "NotFound" /\ req'[r].pc = "done"
             /\ contents' = contents /\ businesses' = businesses
             /\ syncLog' = syncLog
      /\ \A i \in 1..(nextId - 1) : i \notin DOMAIN contents => i \notin DOMAIN contents'
      /\ \A r \in Reqs : LoadLogged(r)' \/ WriteLogged(r)' => req[r].result # "NotFound"
      /\ DoneIsFinal
    ]_vars

\* an update carrying new tags loaded record 1, another request deleted the
\* record, and the update ended with NotFound without any sync step
C9_Witness ==
  \E r, q \in Reqs :
    /\ req[r].op = "update" /\ req[r].id = 1 /\ req[r].existingBusiness = "b1"
    /\ req[r].payload.tags = Some(FoodNew)
    /\ req[r].pc = "done" /\ req[r].result = "NotFound"
    /\ req[q].op = "delete" /\ req[q].id = 1 /\ req[q].result = "ok"
    /\ 1 \notin DOMAIN contents
    /\ ~LoadLogged(r) /\ ~WriteLogged(r)
    /\ businesses["b1"].tags = Some(FoodLocal)

-----------------------------------------------------------------------------
(* Two tag syncs against one business *)

Pos(r, kind) == CHOOSE i \in 1..Len(syncLog) : syncLog[i] = <<r, kind>>

\* the hashtags of a tag string, as they are written in it
TagsOf(C) == {TokenAt(C, i) : i \in {j \in TokenStarts(C) : IsTag(TokenAt(C, j))}}

\* r and q are the two syncs that wrote to one business, which still exists
TwoWriters(r, q) ==
  /\ r # q
  /\ req[r].pc = "done" /\ req[q].pc = "done"
  /\ WriteLogged(r) /\ WriteLogged(q)
  /\ req[r].syncBusinessId = req[q].syncBusinessId
  /\ req[r].syncBusinessId \in liveBiz
  /\ \A i \in 1..Len(syncLog) :
       (syncLog[i][2] = "write" /\
        req[syncLog[i][1]].syncBusinessId = req[r].syncBusinessId)
         => syncLog[i][1] \in {r, q}

FinalTags(r) == TextOf(businesses[req[r].syncBusinessId].tags)

\* q loaded the business only after r had written it
OneAfterTheOther(r, q) == Pos(r, "write") < Pos(q, "load")

\* a new hashtag of r's content is missing from the business's final tags
LostTagsOf(r) ==
  \E t \in TagsOf(Get(req[r].contentTags)) : ~PresentIn(t, FinalTags(r))

\* C10: of two syncs that wrote to the same business, the later writer's
\* string is the business's whole tag string; when one sync loaded the
\* business only after the other had written, the final tags hold the
\* hashtags of both contents, so hashtags are lost only when both loaded
\* before either wrote.
C10_LastWriterWins ==
  \A r, q \in Reqs :
    TwoWriters(r, q) =>
      /\ Pos(r, "write") < Pos(q, "write") => FinalTags(q) = req[q].updatedTags
      /\ OneAfterTheOther(r, q) => ~LostTagsOf(r) /\ ~LostTagsOf(q)
      /\ LostTagsOf(r) =>
           /\ Pos(r, "load") < Pos(q, "write") /\ Pos(q, "load") < Pos(r, "write")
           /\ Pos(r, "write") < Pos(q, "write")

\* both syncs loaded "#food #local" before either wrote; the one with
\* "#Food #NEW" wrote "#food #local #new", the other then replaced it, and
\* the business's tags lack #new
C10_Witness ==
  \E r, q \in Reqs :
    /\ TwoWriters(r, q)
    /\ Pos(r, "load") < Pos(q, "write") /\ Pos(q, "load") < Pos(r, "write")
    /\ Pos(r, "write") < Pos(q, "write")
    /\ req[r].contentTags = Some(FoodNew) /\ req[r].updatedTags = FoodLocalNew
    /\ req[q].contentTags = Some(TagX)
    /\ FinalTags(q) = FoodLocal \o <<" ", "#", "x">>
    /\ LostTagsOf(r) /\ ~LostTagsOf(q)

\* the same two syncs one after the other: the tags hold #new and #x
C10_InTurn ==
  \E r, q \in Reqs :
    /\ TwoWriters(r, q) /\ OneAfterTheOther(r, q)
    /\ req[r].contentTags = Some(FoodNew) /\ req[q].contentTags = Some(TagX)
    /\ FinalTags(q) = FoodLocalNew \o <<" ", "#", "x">>

-----------------------------------------------------------------------------
(* Listing: role-scoped visibility and pagination *)

Range(seq) == {seq[i] : i \in 1..Len(seq)}

Unprivileged(user) ==
  user.roles \cap {"SUPER_ADMIN", "ADMIN", "CONTENT_WRITER"} = {}

DesignerView(filter, user) ==
  /\ filter.assignedCD = Some({user.id})
  /\ filter.contentType = Some({"poster", "both"})

EditorView(filter, user) ==
  /\ filter.assignedVE = Some({user.id})
  /\ filter.contentType = Some({"video", "both"})

\* C7 as stated: for a user with none of SUPER_ADMIN, ADMIN, CONTENT_WRITER
\* the effective filter is the designer's whenever the user holds
\* CONTENT_DESIGNER and the video editor's whenever the user holds
\* VIDEO_EDITOR, whatever the query says.
C7_EveryRoleForced ==
  (listing.pc = "done" /\ Unprivileged(listing.user)) =>
    /\ "CONTENT_DESIGNER" \in listing.user.roles =>
         DesignerView(listing.filter, listing.user)
    /\ "VIDEO_EDITOR" \in listing.user.roles =>
         EditorView(listing.filter, listing.user)

\* C7 amended: for a user with none of SUPER_ADMIN, ADMIN, CONTENT_WRITER the
\* effective filter is the designer's when the user holds CONTENT_DESIGNER,
\* and the video editor's when the user holds VIDEO_EDITOR and not
\* CONTENT_DESIGNER, whatever the query says; a designer is returned no
\* video item and no item of another designer, such an editor no poster
\* item and no item of another editor.
C7_DesignerFirst ==
  (listing.pc = "done" /\ Unprivileged(listing.user)) =>
    LET roles == listing.user.roles
        me == listing.user.id
    IN  /\ "CONTENT_DESIGNER" \in roles =>
             /\ DesignerView(listing.filter, listing.user)
             /\ \A i \in Range(listing.contents) :
                  /\ contents[i].contentType \in {"poster", "both"}
                  /\ contents[i].assignedCD = me
        /\ ("VIDEO_EDITOR" \in roles /\ "CONTENT_DESIGNER" \notin roles) =>
             /\ EditorView(listing.filter, listing.user)
             /\ \A i \in Range(listing.contents) :
                  /\ contents[i].contentType \in {"video", "both"}
                  /\ contents[i].assignedVE = me

\* a designer asked for contentType=video and another designer's items, and
\* was returned items, all of them the designer's own posters
C7_Witness ==
  /\ listing.pc = "done"
  /\ listing.user.roles = {"CONTENT_DESIGNER"}
  /\ listing.queryParams.contentType = "video"
  /\ listing.queryParams.assignedCD = "u4"
  /\ listing.contents # <<>>
  /\ \E i \in DOMAIN contents :
       contents[i].contentType = "video" /\ contents[i].assignedCD = "u4"
  /\ \A i \in Range(listing.contents) :
       contents[i].contentType # "video" /\ contents[i].assignedCD = "u1"

Min(a, b) == IF a < b THEN a ELSE b
Max(a, b) == IF a > b THEN a ELSE b

\* the document at position p (from 0) of the sorted matches
AtPosition(p, matches, queryParams) ==
  CHOOSE i \in matches :
    Cardinality({j \in matches :
                   j # i /\ Before(j, i, SortBy(queryParams), SortOrder(queryParams))}) = p

\* totalPages = ceil(total / limit), and the page holds the documents at
\* positions (page-1)*limit .. page*limit - 1 of the sorted matches
PageAsClaimed ==
  LET total == Cardinality(Matching(listing.filter))
      page == listing.page
      limit == listing.limit
      held == Min(limit, Max(0, total - (page - 1) * limit))
  IN  /\ listing.error = "none"
      /\ listing.total = total
      /\ \E k \in 0..total :
           /\ listing.totalPages = <<"number", k>>
           /\ k * limit >= total
           /\ k > 0 => (k - 1) * limit < total
      /\ Len(listing.contents) = held
      /\ \A j \in 1..held :
           listing.contents[j] =
             AtPosition((page - 1) * limit + j - 1, Matching(listing.filter),
                        listing.queryParams)

\* C8 as stated, from page 1 on and for at least one match: for every
\* total, page and limit the response has totalPages = ceil(total/limit) and
\* holds min(limit, max(0, total-(page-1)*limit)) documents, those at
\* positions (page-1)*limit .. page*limit - 1 of the sorted matches.
C8_EveryLimit ==
  (listing.pc = "done" /\ listing.page >= 1 /\ listing.total >= 1) => PageAsClaimed

\* C8 where it holds: the same for page >= 1 and limit >= 1.
C8_PositiveLimit ==
  (listing.pc = "done" /\ listing.page >= 1 /\ listing.limit >= 1) => PageAsClaimed

\* 45 matches, the default limit of 20, page 3: totalPages 3 and 5 documents
C8_Example ==
  /\ listing.pc = "done"
  /\ listing.total = 45 /\ listing.limit = 20 /\ listing.page = 3
  /\ listing.queryParams.limit = None
  /\ listing.totalPages = <<"number", 3>>
  /\ Len(listing.contents) = 5

-----------------------------------------------------------------------------
(* Who changes a business's tags *)

\* C11 as stated: an updateRegularContent by a user without SUPER_ADMIN and
\* ADMIN changes the tags of a business only if the user's id is in one of
\* that business's assignedCW, assignedCD and assignedVE lists, also when
\* the payload changes the record's business together with its tags.
C11_TagsOnlyByAssigned ==
  [][ \A r \in Reqs :
        ( /\ req[r].op = "update" /\ ~Privileged(req[r].user)
          /\ req'[r] # req[r]
          /\ \E b \in BizIds : businesses'[b].tags # businesses[b].tags ) =>
          \A b \in BizIds :
            businesses'[b].tags # businesses[b].tags =>
              ListedAnywhere(req[r].user.id, businesses[b])
    ]_vars

\* C11 where it holds: the same for an update whose payload leaves the
\* record's business alone, the sync then going to the business the
\* authorization was made against.
C11_SameBusiness ==
  [][ \A r \in Reqs :
        ( /\ req[r].op = "update" /\ ~Privileged(req[r].user)
          /\ req[r].payload.business = Undefined
          /\ req'[r] # req[r] ) =>
          \A b \in BizIds :
            businesses'[b].tags # businesses[b].tags =>
              ListedAnywhere(req[r].user.id, businesses[b])
    ]_vars

====
